---- MODULE Spec2Model ----
(***************************************************************************)
(* Model of the signal-result composition core of leptos-musings:          *)
(*   src/signal_result/mod.rs     SignalResult, its constructors, combine  *)
(*   src/signal_result/macros.rs  signal_result_view                       *)
(*   src/example_form_view.rs     a view reconciling a Memo and a Resource *)
(*                                                                         *)
(*   src/typed_path/app/src/routes  the typed routes, WithQueryParams      *)
(*                                                                         *)
(* The specifications of the module:                                       *)
(*   SpecCombine  an evaluator of constructor / combine expressions: the   *)
(*                operands live on a stack, every call is recorded.        *)
(*   Spec         the reactive view: sources change state, the rendering   *)
(*                closure re-runs signal_result_view over them.            *)
(*   SpecConstructed  SpecCombine without enum literals.                   *)
(*   SpecPath     a typed route is built, wrapped with query params and    *)
(*                rendered.                                                *)
(***************************************************************************)
EXTENDS Integers, Sequences, FiniteSets, TLC

VARIABLES
    stack,      \* SpecCombine: the SignalResults built so far, with the leaves each was built from
    call,       \* SpecCombine: the last call made: its operation, arguments and return value
    sources,    \* Spec: what each source's get() returns now
    order,      \* Spec: the resources that have resolved, in the order they resolved
    pending,    \* Spec: a source changed since the rendering closure last ran
    validate,   \* Spec: the combined SignalResult of the last run of the closure
    view,       \* Spec: the EitherOf3 the last run of the closure returned
    path,       \* SpecPath: the TypedPath value built so far
    rendered    \* SpecPath: what to_string() returned for path, if it was called

vars == <<stack, call, sources, order, pending, validate, view, path, rendered>>
combineVars == <<stack, call>>
viewVars == <<sources, order, pending, validate, view>>
pathVars == <<path, rendered>>

\* no typed path has been built, nothing has been rendered
NoPath == [route |-> "none"]
NotRendered == [state |-> "not rendered"]

----------------------------------------------------------------------------
(* Bounds *)

\* payload values are 1..MaxValue
MaxValue == 2
\* number of leaf SignalResults the evaluator's stack may hold in total
MaxLeaves == 4
\* number of sources handed to signal_result_view
NumSources == 3

Values == 1..MaxValue

\* crate::AppError is an enum defined outside these files; the tests use
\* PageNotFound, a second variant makes the order of an error list visible.
AppErrors == {"PageNotFound", "ServerError"}

----------------------------------------------------------------------------
(* std Option and Result, as far as the constructors match on them *)

None == [tag |-> "None"]
Some(x) == [tag |-> "Some", some |-> x]
Ok(t) == [tag |-> "Ok", value |-> t]
Err(e) == [tag |-> "Err", error |-> e]

Results == {Ok(v) : v \in Values} \cup {Err(e) : e \in AppErrors}
OptionResults == {None} \cup {Some(r) : r \in Results}
Options == {None} \cup {Some(v) : v \in Values}

----------------------------------------------------------------------------
(* enum SignalResult<T: HList> { Loading, Ok(T), Err(Vec<AppError>) }       *)
(* An HList is the sequence of its elements, a Vec the sequence of its     *)
(* items.                                                                  *)

SignalResult_Loading == [tag |-> "Loading"]
SignalResult_Ok(t) == [tag |-> "Ok", hlist |-> t]
SignalResult_Err(e) == [tag |-> "Err", errors |-> e]

\* hlist![t] and vec![e]
hlist1(t) == <<t>>
vec1(e) == <<e>>

\* from_option_result with the absent case reported as an empty error list
from_option_result_NoneIsErr(value) ==
    IF value.tag = "None" THEN SignalResult_Err(<<>>)
    ELSE IF value.some.tag = "Ok" THEN SignalResult_Ok(hlist1(value.some.value))
    ELSE SignalResult_Err(vec1(value.some.error))

from_option_result(value) ==
    IF value.tag = "Some" /\ value.some.tag = "Ok"
        THEN SignalResult_Ok(hlist1(value.some.value))
    ELSE IF value.tag = "Some" /\ value.some.tag = "Err"
        THEN SignalResult_Err(vec1(value.some.error))
    ELSE SignalResult_Loading

from_result(value) ==
    IF value.tag = "Ok" THEN SignalResult_Ok(hlist1(value.value))
    ELSE SignalResult_Err(vec1(value.error))

from_option(value) ==
    IF value.tag = "Some" THEN SignalResult_Ok(hlist1(value.some))
    ELSE SignalResult_Loading

\* combine with the error arms ahead of the second Loading arm
combine_ErrBeforeLoading(right, left) ==
    IF right.tag = "Loading" THEN SignalResult_Loading
    ELSE IF right.tag = "Err" /\ left.tag = "Err"
        THEN SignalResult_Err(right.errors \o left.errors)
    ELSE IF right.tag = "Err" THEN SignalResult_Err(right.errors)
    ELSE IF left.tag = "Loading" THEN SignalResult_Loading
    ELSE IF left.tag = "Err" THEN SignalResult_Err(left.errors)
    ELSE SignalResult_Ok(right.hlist \o left.hlist)

\* combine extending / chaining the second operand by the first
combine_Swapped(right, left) ==
    IF right.tag = "Loading" THEN SignalResult_Loading
    ELSE IF left.tag = "Loading" THEN SignalResult_Loading
    ELSE IF right.tag = "Ok" /\ left.tag = "Ok"
        THEN SignalResult_Ok(left.hlist \o right.hlist)
    ELSE IF right.tag = "Err" /\ left.tag = "Err"
        THEN SignalResult_Err(left.errors \o right.errors)
    ELSE IF right.tag = "Ok" THEN SignalResult_Err(left.errors)
    ELSE SignalResult_Err(right.errors)

\* combine keeping only the first operand's errors when both failed
combine_FirstErrOnly(right, left) ==
    IF right.tag = "Loading" THEN SignalResult_Loading
    ELSE IF left.tag = "Loading" THEN SignalResult_Loading
    ELSE IF right.tag = "Ok" /\ left.tag = "Ok"
        THEN SignalResult_Ok(right.hlist \o left.hlist)
    ELSE IF right.tag = "Err" THEN SignalResult_Err(right.errors)
    ELSE SignalResult_Err(left.errors)

\* combine letting an Ok second operand win over an Err first operand
combine_OkWins(right, left) ==
    IF right.tag = "Loading" THEN SignalResult_Loading
    ELSE IF left.tag = "Loading" THEN SignalResult_Loading
    ELSE IF right.tag = "Ok" /\ left.tag = "Ok"
        THEN SignalResult_Ok(right.hlist \o left.hlist)
    ELSE IF right.tag = "Err" /\ left.tag = "Err"
        THEN SignalResult_Err(right.errors \o left.errors)
    ELSE IF right.tag = "Ok" THEN SignalResult_Err(left.errors)
    ELSE SignalResult_Ok(left.hlist)

\* fn combine(right, left): the match of mod.rs, arm by arm.  `right` is the
\* first operand (the receiver of the method), `left` the second.
combine(right, left) ==
    IF right.tag = "Loading" THEN SignalResult_Loading
    ELSE IF left.tag = "Loading" THEN SignalResult_Loading
    ELSE IF right.tag = "Ok" /\ left.tag = "Ok"
        THEN SignalResult_Ok(right.hlist \o left.hlist)
    ELSE IF right.tag = "Err" /\ left.tag = "Err"
        THEN SignalResult_Err(right.errors \o left.errors)
    ELSE IF right.tag = "Ok" /\ left.tag = "Err"
        THEN SignalResult_Err(left.errors)
    ELSE SignalResult_Err(right.errors)

\* SignalResult::combine(self, other)
SignalResult_combine(self, other) == combine(self, other)

----------------------------------------------------------------------------
(* SpecCombine: expressions over the constructors and combine              *)

\* SignalResult::Loading, SignalResult::Ok(hlist![v]) and SignalResult::Err(vec![..])
\* written directly, as the tests do
LiteralResults ==
    {SignalResult_Loading}
        \cup {SignalResult_Ok(hlist1(v)) : v \in Values}
        \cup {SignalResult_Err(<<>>)}
        \cup {SignalResult_Err(vec1(e)) : e \in AppErrors}

RECURSIVE TotalLeaves(_)
TotalLeaves(s) ==
    IF s = <<>> THEN 0 ELSE Len(Head(s).leaves) + TotalLeaves(Tail(s))

CanPush == TotalLeaves(stack) < MaxLeaves

Leaf(v) == [val |-> v, leaves |-> <<v>>]

Literal ==
    \E v \in LiteralResults :
        /\ CanPush
        /\ stack' = Append(stack, Leaf(v))
        /\ call' = [op |-> "literal", out |-> v]
        /\ UNCHANGED <<viewVars, pathVars>>

FromOptionResult ==
    \E value \in OptionResults :
        /\ CanPush
        /\ stack' = Append(stack, Leaf(from_option_result(value)))
        /\ call' = [op |-> "from_option_result", value |-> value,
                    out |-> from_option_result(value)]
        /\ UNCHANGED <<viewVars, pathVars>>

FromResult ==
    \E value \in Results :
        /\ CanPush
        /\ stack' = Append(stack, Leaf(from_result(value)))
        /\ call' = [op |-> "from_result", value |-> value,
                    out |-> from_result(value)]
        /\ UNCHANGED <<viewVars, pathVars>>

FromOption ==
    \E value \in Options :
        /\ CanPush
        /\ stack' = Append(stack, Leaf(from_option(value)))
        /\ call' = [op |-> "from_option", value |-> value,
                    out |-> from_option(value)]
        /\ UNCHANGED <<viewVars, pathVars>>

\* a.combine(b) on the two newest values: a is the older one
Combine ==
    /\ Len(stack) >= 2
    /\ LET n == Len(stack)
           a == stack[n - 1]
           b == stack[n]
           out == SignalResult_combine(a.val, b.val)
       IN /\ stack' = Append(SubSeq(stack, 1, n - 2),
                             [val |-> out, leaves |-> a.leaves \o b.leaves])
          /\ call' = [op |-> "combine", right |-> a.val, left |-> b.val,
                      out |-> out]
    /\ UNCHANGED <<viewVars, pathVars>>

NoCall == [op |-> "none"]
Unevaluated == [tag |-> "Unevaluated"]
Unrendered == [either |-> "Unrendered"]

InitCombine ==
    /\ stack = <<>>
    /\ call = NoCall
    /\ sources = <<>>
    /\ order = <<>>
    /\ pending = FALSE
    /\ validate = Unevaluated
    /\ view = Unrendered
    /\ path = NoPath
    /\ rendered = NotRendered

NextCombine ==
    \/ Literal
    \/ FromOptionResult
    \/ FromResult
    \/ FromOption
    \/ Combine

SpecCombine == InitCombine /\ [][NextCombine]_vars

\* expressions built from the three constructors and combine only
NextConstructed ==
    \/ FromOptionResult
    \/ FromResult
    \/ FromOption
    \/ Combine

SpecConstructed == InitCombine /\ [][NextConstructed]_vars

----------------------------------------------------------------------------
(* Spec: the rendering closure over NumSources sources                     *)

\* VisualizarEvolucao reads a Memo<Result<..>> first and Resources after it
Kind(i) == IF i = 1 THEN "Memo" ELSE "Resource"

\* impl From<Resource<Result<H, AppError>>> and From<Memo<Result<H, AppError>>>:
\* `got` is what value.get() returns
SignalResult_from(kind, got) ==
    IF kind = "Resource" THEN from_option_result(got) ELSE from_result(got)

\* the chain folded from the last source towards the first
RECURSIVE signal_result_view_chain_Reversed(_, _)
signal_result_view_chain_Reversed(src, n) ==
    IF n = 1 THEN SignalResult_from(Kind(1), src[1])
    ELSE SignalResult_combine(SignalResult_from(Kind(n), src[n]),
                              signal_result_view_chain_Reversed(src, n - 1))

\* SignalResult::from($first) $(.combine(SignalResult::from($rest)))*
RECURSIVE signal_result_view_chain(_, _)
signal_result_view_chain(src, n) ==
    IF n = 1 THEN SignalResult_from(Kind(1), src[1])
    ELSE SignalResult_combine(signal_result_view_chain(src, n - 1),
                              SignalResult_from(Kind(n), src[n]))

\* the match with the Err arm rendering the loading view
signal_result_view_match_ErrAsLoading(v) ==
    IF v.tag = "Ok"
        THEN [either |-> "A", params |-> [i \in 1..NumSources |-> v.hlist[i]]]
    ELSE [either |-> "C"]

\* match validate { Ok(hlist_pat!(..)) => A($ok_view), Err(errors) =>
\* B($error_view(errors)), Loading => C($loading_view) }
signal_result_view_match(v) ==
    IF v.tag = "Ok"
        THEN [either |-> "A", params |-> [i \in 1..NumSources |-> v.hlist[i]]]
    ELSE IF v.tag = "Err"
        THEN [either |-> "B", errors |-> v.errors]
    ELSE [either |-> "C"]

\* the async fetch behind a Resource completes
Resolve ==
    \E i \in 1..NumSources, r \in Results :
        /\ Kind(i) = "Resource"
        /\ sources[i] = None
        /\ sources' = [sources EXCEPT ![i] = Some(r)]
        /\ order' = Append(order, i)
        /\ pending' = TRUE
        /\ UNCHANGED <<validate, view, stack, call, pathVars>>

\* a Resource is fetched again and is absent until the fetch completes
Refetch ==
    \E i \in 1..NumSources :
        /\ Kind(i) = "Resource"
        /\ sources[i] # None
        /\ sources' = [sources EXCEPT ![i] = None]
        /\ order' = SelectSeq(order, LAMBDA j : j # i)
        /\ pending' = TRUE
        /\ UNCHANGED <<validate, view, stack, call, pathVars>>

\* a Memo recomputes to another Result
Recompute ==
    \E i \in 1..NumSources, r \in Results :
        /\ Kind(i) = "Memo"
        /\ sources[i] # r
        /\ sources' = [sources EXCEPT ![i] = r]
        /\ pending' = TRUE
        /\ UNCHANGED <<order, validate, view, stack, call, pathVars>>

\* the closure `move || signal_result_view!(..)` runs
Reconcile ==
    /\ pending
    /\ LET v == signal_result_view_chain(sources, NumSources)
       IN /\ validate' = v
          /\ view' = signal_result_view_match(v)
    /\ pending' = FALSE
    /\ UNCHANGED <<sources, order, stack, call, pathVars>>

Init ==
    /\ stack = <<>>
    /\ call = NoCall
    /\ sources \in {s \in [1..NumSources -> Results \cup {None}] :
                       \A i \in 1..NumSources :
                           (Kind(i) = "Resource") <=> (s[i] = None)}
    /\ order = <<>>
    /\ pending = TRUE
    /\ validate = Unevaluated
    /\ view = Unrendered
    /\ path = NoPath
    /\ rendered = NotRendered

Next ==
    \/ Resolve
    \/ Refetch
    \/ Recompute
    \/ Reconcile

Spec == Init /\ [][Next]_vars

----------------------------------------------------------------------------
(* Typed routes.  A string is the sequence of its characters.              *)

\* length of a parameter value drawn as input
MaxParamLen == 2
\* number of fields of the query objects of one path, all wrappers together
MaxFields == 2
\* number of nested with_query_params wrappers
MaxWraps == 2

\* the grave accent character, which a TLA+ string cannot hold
Backtick == "grave"

\* percent_encoding::CONTROLS, of which tab and line feed stand for the rest
CONTROLS == {"\t", "\n"}

\* PATH_SEGMENT without the two characters the last line of helpers.rs adds
PATH_SEGMENT_AsPath == CONTROLS \cup {" ", "\"", "<", ">", Backtick} \cup {"#", "?", "{", "}"}

FRAGMENT == CONTROLS \cup {" ", "\"", "<", ">", Backtick}
PATH == FRAGMENT \cup {"#", "?", "{", "}"}
PATH_SEGMENT == PATH \cup {"/", "%"}

\* the two hexadecimal digits of an ASCII character's code
Hex(c) ==
    CASE c = "\t" -> <<"0", "9">>
      [] c = "\n" -> <<"0", "A">>
      [] c = " "  -> <<"2", "0">>
      [] c = "\"" -> <<"2", "2">>
      [] c = "#"  -> <<"2", "3">>
      [] c = "%"  -> <<"2", "5">>
      [] c = "&"  -> <<"2", "6">>
      [] c = "+"  -> <<"2", "B">>
      [] c = "/"  -> <<"2", "F">>
      [] c = ":"  -> <<"3", "A">>
      [] c = "<"  -> <<"3", "C">>
      [] c = "="  -> <<"3", "D">>
      [] c = ">"  -> <<"3", "E">>
      [] c = "?"  -> <<"3", "F">>
      [] c = Backtick  -> <<"6", "0">>
      [] c = "{"  -> <<"7", "B">>
      [] c = "}"  -> <<"7", "D">>

\* utf8_percent_encode(input, ascii_set) collected into a string
RECURSIVE utf8_percent_encode(_, _)
utf8_percent_encode(input, ascii_set) ==
    IF input = <<>> THEN <<>>
    ELSE (IF Head(input) \in ascii_set THEN <<"%">> \o Hex(Head(input))
          ELSE <<Head(input)>>)
             \o utf8_percent_encode(Tail(input), ascii_set)

\* the routes of routes/mod.rs
Home == [route |-> "Home"]
Help == [route |-> "Help"]
SomeParameterPath(parameter) == [route |-> "SomeParameterPath", parameter |-> parameter]

\* const PATH of each route: the literal of its #[typed_path(..)] attribute
TypedPath_PATH(self) ==
    CASE self.route = "Home" -> <<"/">>
      [] self.route = "Help" -> <<"/", "h", "e", "l", "p">>
      [] self.route = "SomeParameterPath" ->
             <<"/", "s", "o", "m", "e", "/", ":",
               "p", "a", "r", "a", "m", "e", "t", "e", "r">>

\* the field of the route struct a capture names
CaptureField(self, name) ==
    CASE name = <<"p", "a", "r", "a", "m", "e", "t", "e", "r">> -> self.parameter

\* the characters of s before its first '/', all of s when it has none
RECURSIVE SegmentPrefix(_)
SegmentPrefix(s) ==
    IF s = <<>> \/ Head(s) = "/" THEN <<>>
    ELSE <<Head(s)>> \o SegmentPrefix(Tail(s))

\* Display of a derived route: literal text passes through, a capture
\* (a ':' at a segment boundary) is replaced by its field's value,
\* percent-encoded with PATH_SEGMENT
RECURSIVE TypedPath_fmt(_, _)
TypedPath_fmt(self, pattern) ==
    IF pattern = <<>> THEN <<>>
    ELSE IF Head(pattern) = "/" /\ Len(pattern) >= 2 /\ pattern[2] = ":"
        THEN LET rest == Tail(Tail(pattern))
                 name == SegmentPrefix(rest)
             IN <<"/">>
                    \o utf8_percent_encode(CaptureField(self, name), PATH_SEGMENT)
                    \o TypedPath_fmt(self, SubSeq(rest, Len(name) + 1, Len(rest)))
    ELSE <<Head(pattern)>> \o TypedPath_fmt(self, Tail(pattern))

\* TypedPath::with_query_params(self, params)
WithQueryParams(self, params) ==
    [route |-> "WithQueryParams", path |-> self, params |-> params]

\* a Serialize value: a struct of string fields f1, f2, .. in declaration
\* order, or a value serde_html_form has no encoding for
QueryStruct(fields) == [supported |-> TRUE, fields |-> fields]
Unsupported == [supported |-> FALSE]

FieldName(i) == <<"f", <<"1", "2", "3", "4", "5", "6", "7", "8", "9">>[i]>>

\* what to_string() gives: the string, or the panic of the unwrap_or_else
Rendered(out) == [panicked |-> FALSE, out |-> out]
Panicked == [panicked |-> TRUE]

\* the bytes form_urlencoded leaves as they are
Unreserved ==
    {"a", "b", "c", "d", "e", "f", "g", "h", "i", "j", "k", "l", "m",
     "n", "o", "p", "q", "r", "s", "t", "u", "v", "w", "x", "y", "z",
     "0", "1", "2", "3", "4", "5", "6", "7", "8", "9",
     "*", "-", ".", "_"}

\* form_urlencoded::byte_serialize
RECURSIVE byte_serialize(_)
byte_serialize(input) ==
    IF input = <<>> THEN <<>>
    ELSE (IF Head(input) \in Unreserved THEN <<Head(input)>>
          ELSE IF Head(input) = " " THEN <<"+">>
          ELSE <<"%">> \o Hex(Head(input)))
             \o byte_serialize(Tail(input))

\* append_pair writing the separator before every pair, the first included
append_pair_AlwaysSeparator(target, start_position, name, value) ==
    Append(target, "&") \o byte_serialize(name) \o <<"=">> \o byte_serialize(value)

\* form_urlencoded::Serializer::append_pair on a serializer created over
\* `target` when it had start_position characters
append_pair(target, start_position, name, value) ==
    (IF Len(target) > start_position THEN Append(target, "&") ELSE target)
        \o byte_serialize(name) \o <<"=">> \o byte_serialize(value)

\* params.serialize(..) of a struct: one pair per field from field i on
RECURSIVE serialize(_, _, _, _)
serialize(out, start_position, fields, i) ==
    IF i > Len(fields) THEN out
    ELSE serialize(append_pair(out, start_position, FieldName(i), fields[i]),
                   start_position, fields, i + 1)

contains(s, c) == \E i \in 1..Len(s) : s[i] = c

\* the '?' pushed only when there are params to write
push_question_mark_IfParams(out, params) ==
    IF ~contains(out, "?") /\ params.supported /\ params.fields # <<>>
        THEN Append(out, "?")
    ELSE out

\* if !out.contains('?') { out.push('?'); }
push_question_mark(out, params) ==
    IF ~contains(out, "?") THEN Append(out, "?") ELSE out

\* to_string(): Display of a derived route, or WithQueryParams::fmt
RECURSIVE to_string(_)
to_string(self) ==
    IF self.route = "WithQueryParams"
        THEN LET inner == to_string(self.path)
             IN IF inner.panicked THEN Panicked
                ELSE LET out == push_question_mark(inner.out, self.params)
                     IN IF ~self.params.supported THEN Panicked
                        ELSE Rendered(serialize(out, Len(out), self.params.fields, 1))
    ELSE Rendered(TypedPath_fmt(self, TypedPath_PATH(self)))

----------------------------------------------------------------------------
(* SpecPath: a route is built, wrapped and rendered                        *)

RECURSIVE Strings(_, _)
Strings(chars, n) ==
    IF n = 0 THEN {<<>>}
    ELSE Strings(chars, n - 1)
             \cup {Append(s, c) : s \in Strings(chars, n - 1), c \in chars}

\* the characters parameter values are drawn from
ParamChars == {"a", "\t", " ", "#", "?", "/", "%"}

\* parameter values: the "test" of HomePage, every single character of
\* PATH_SEGMENT, and the short strings over ParamChars
Parameters ==
    {<<"t", "e", "s", "t">>}
        \cup {<<c>> : c \in PATH_SEGMENT}
        \cup Strings(ParamChars, MaxParamLen)

\* values of a query field
QueryValues == {<<"a", "1">>, <<"a", " ", "b">>, <<"&", "=">>}

QueryStructs(n) ==
    UNION {[1..k -> QueryValues] : k \in 0..n}

RECURSIVE Wraps(_)
Wraps(p) == IF p.route = "WithQueryParams" THEN 1 + Wraps(p.path) ELSE 0

RECURSIVE TotalFields(_)
TotalFields(p) ==
    IF p.route = "WithQueryParams"
        THEN (IF p.params.supported THEN Len(p.params.fields) ELSE 0)
                 + TotalFields(p.path)
    ELSE 0

\* the innermost, derived route of a path
RECURSIVE BasePath(_)
BasePath(p) == IF p.route = "WithQueryParams" THEN BasePath(p.path) ELSE p

with_query_params ==
    \E params \in {QueryStruct(f) : f \in QueryStructs(MaxFields - TotalFields(path))}
                      \cup {Unsupported} :
        /\ Wraps(path) < MaxWraps
        /\ path' = WithQueryParams(path, params)
        /\ rendered' = NotRendered
        /\ UNCHANGED <<combineVars, viewVars>>

RenderPath ==
    /\ rendered = NotRendered
    /\ rendered' = to_string(path)
    /\ UNCHANGED <<path, combineVars, viewVars>>

InitPath ==
    /\ stack = <<>>
    /\ call = NoCall
    /\ sources = <<>>
    /\ order = <<>>
    /\ pending = FALSE
    /\ validate = Unevaluated
    /\ view = Unrendered
    /\ path \in {Home, Help} \cup {SomeParameterPath(v) : v \in Parameters}
    /\ rendered = NotRendered

NextPath ==
    \/ with_query_params
    \/ RenderPath

SpecPath == InitPath /\ [][NextPath]_vars

----------------------------------------------------------------------------
(* Properties of combine and the constructors, checked under SpecCombine   *)

IsCombineCall == call.op = "combine"

\* C1: combine(A, B) is Loading whenever A is Loading or B is Loading,
\* whatever the other operand is, an Err operand included.
C1_LoadingDominates ==
    (IsCombineCall /\ (call.right.tag = "Loading" \/ call.left.tag = "Loading"))
        => call.out = SignalResult_Loading

\* the case of C1 where the other operand is a non-empty Err, in first position
C1_Witness ==
    /\ IsCombineCall
    /\ call.right.tag = "Err"
    /\ call.right.errors # <<>>
    /\ call.left.tag = "Loading"
    /\ call.out = SignalResult_Loading

\* C2: a.combine(b) on Ok(a) and Ok(b) is Ok of the elements of a followed by
\* the elements of b, each unchanged, of length len(a) + len(b).
C2_OkConcatenates ==
    (IsCombineCall /\ call.right.tag = "Ok" /\ call.left.tag = "Ok")
        => LET a == call.right.hlist
               b == call.left.hlist
           IN /\ call.out.tag = "Ok"
              /\ Len(call.out.hlist) = Len(a) + Len(b)
              /\ \A i \in 1..Len(a) : call.out.hlist[i] = a[i]
              /\ \A j \in 1..Len(b) : call.out.hlist[Len(a) + j] = b[j]

\* two Ok operands of different arity whose elements tell the order apart
C2_Witness ==
    /\ IsCombineCall
    /\ call.right.tag = "Ok"
    /\ call.left.tag = "Ok"
    /\ Len(call.right.hlist) = 2
    /\ Len(call.left.hlist) = 1
    /\ call.right.hlist[1] # call.left.hlist[1]
    /\ call.out.tag = "Ok"
    /\ Len(call.out.hlist) = 3

\* C3: combine(Err(e1), Err(e2)) is Err of e1 followed by e2, of length
\* len(e1) + len(e2), order preserved and duplicates kept.
C3_ErrConcatenates ==
    (IsCombineCall /\ call.right.tag = "Err" /\ call.left.tag = "Err")
        => LET e1 == call.right.errors
               e2 == call.left.errors
           IN /\ call.out.tag = "Err"
              /\ Len(call.out.errors) = Len(e1) + Len(e2)
              /\ \A i \in 1..Len(e1) : call.out.errors[i] = e1[i]
              /\ \A j \in 1..Len(e2) : call.out.errors[Len(e1) + j] = e2[j]

\* two Err operands sharing an error: the duplicate is kept, the order too
C3_Witness ==
    /\ IsCombineCall
    /\ call.right.tag = "Err"
    /\ call.left.tag = "Err"
    /\ call.right.errors = <<"PageNotFound", "ServerError">>
    /\ call.left.errors = <<"PageNotFound">>
    /\ call.out = SignalResult_Err(<<"PageNotFound", "ServerError", "PageNotFound">>)

OneErrOneOk ==
    /\ IsCombineCall
    /\ \/ call.right.tag = "Err" /\ call.left.tag = "Ok"
       \/ call.right.tag = "Ok" /\ call.left.tag = "Err"

ErrOperand == IF call.right.tag = "Err" THEN call.right ELSE call.left

\* C4: with exactly one operand Err(e) and the other Ok, in either position,
\* the result is Err with exactly the list e and nothing of the Ok payload.
C4_SingleErrWins ==
    OneErrOneOk
        => /\ call.out.tag = "Err"
           /\ call.out.errors = ErrOperand.errors
           /\ DOMAIN call.out = {"tag", "errors"}

\* the Err operand first, with two errors, against an Ok of two elements
C4_Witness ==
    /\ OneErrOneOk
    /\ call.right.tag = "Err"
    /\ Len(call.right.errors) = 2
    /\ call.right.errors[1] # call.right.errors[2]
    /\ Len(call.left.hlist) = 2
    /\ call.out = SignalResult_Err(call.right.errors)

\* C5: from_option_result maps None to Loading, Some(Err(e)) to Err([e]) and
\* Some(Ok(v)) to Ok([v]); nothing else comes out of it.
C5_FromOptionResult ==
    (call.op = "from_option_result")
        => /\ (call.value = None) => (call.out = SignalResult_Loading)
           /\ \A e \in AppErrors :
                  (call.value = Some(Err(e))) => (call.out = SignalResult_Err(<<e>>))
           /\ \A v \in Values :
                  (call.value = Some(Ok(v))) => (call.out = SignalResult_Ok(<<v>>))
           /\ call.out \in {SignalResult_Loading}
                  \cup {SignalResult_Err(<<e>>) : e \in AppErrors}
                  \cup {SignalResult_Ok(<<v>>) : v \in Values}

\* the absent value has been converted
C5_Witness ==
    /\ call.op = "from_option_result"
    /\ call.value = None
    /\ call.out = SignalResult_Loading

\* the three newest values of the stack, oldest first
Top3 == SubSeq(stack, Len(stack) - 2, Len(stack))

\* C6: combine is associative: combine(combine(A, B), C) equals
\* combine(A, combine(B, C)) for all A, B, C, contents and order included.
C6_Associative ==
    (Len(stack) >= 3)
        => LET A == Top3[1].val
               B == Top3[2].val
               C == Top3[3].val
           IN combine(combine(A, B), C) = combine(A, combine(B, C))

\* Err, Ok, Err with a two-error first operand: both groupings must drop the
\* Ok payload and keep all errors in order
C6_Witness ==
    /\ Len(stack) >= 3
    /\ Top3[1].val.tag = "Err"
    /\ Len(Top3[1].val.errors) = 2
    /\ Top3[2].val.tag = "Ok"
    /\ Top3[3].val.tag = "Err"
    /\ Top3[3].val.errors # <<>>
    /\ combine(Top3[1].val, combine(Top3[2].val, Top3[3].val))
           = SignalResult_Err(Top3[1].val.errors \o Top3[3].val.errors)

HasLoadingLeaf(entry) ==
    \E i \in 1..Len(entry.leaves) : entry.leaves[i].tag = "Loading"

\* C7: a chain of sources reduced with combine in any grouping is Loading
\* whenever at least one source is Loading, wherever it stands.
C7_ChainLoading ==
    \A k \in 1..Len(stack) :
        HasLoadingLeaf(stack[k]) => stack[k].val = SignalResult_Loading

\* the sources (Loading, Err, Ok) reduced as Loading . (Err . Ok)
C7_Witness ==
    /\ Len(stack) = 1
    /\ Len(stack[1].leaves) = 3
    /\ stack[1].leaves[1].tag = "Loading"
    /\ stack[1].leaves[2].tag = "Err"
    /\ stack[1].leaves[3].tag = "Ok"
    /\ IsCombineCall
    /\ call.right.tag = "Loading"
    /\ call.left.tag = "Err"
    /\ stack[1].val = SignalResult_Loading

\* the errors an operand of combine carries
ErrorsOf(operand) == IF operand.tag = "Err" THEN operand.errors ELSE <<>>

\* how often error e occurs in the list es
Occurrences(e, es) == Cardinality({i \in 1..Len(es) : es[i] = e})

\* every error of both operands of the recorded call is in its result, as
\* often as the operands carry it
ErrorsKept ==
    \A e \in AppErrors :
        Occurrences(e, ErrorsOf(call.out))
            >= Occurrences(e, ErrorsOf(call.right)) + Occurrences(e, ErrorsOf(call.left))

\* C11 as stated: combine never discards an error of an Err operand, except
\* possibly when exactly one operand is Err and the other Ok.
C11_NeverDiscardedButStep4 ==
    (IsCombineCall /\ ~OneErrOneOk) => ErrorsKept

\* C11 (amended): combine discards the errors of an Err operand only when an
\* operand is Loading; when neither operand is Loading every error of an Err
\* operand is in the result, the case of one Err and one Ok included.
C11_DiscardedOnlyByLoading ==
    (IsCombineCall /\ call.right.tag # "Loading" /\ call.left.tag # "Loading")
        => ErrorsKept

\* one Ok and one Err operand, the Err second: its two errors are both kept
C11_Witness ==
    /\ IsCombineCall
    /\ call.right.tag = "Ok"
    /\ call.left.tag = "Err"
    /\ Len(call.left.errors) = 2
    /\ call.out.tag = "Err"
    /\ ErrorsKept

\* C15: a SignalResult obtained from from_option_result, from_result and
\* from_option followed by any number of combine calls, in any grouping, has
\* a non-empty error list when it is Err.
C15_ErrNonEmpty ==
    /\ \A k \in 1..Len(stack) :
           (stack[k].val.tag = "Err") => (stack[k].val.errors # <<>>)
    /\ (call.op # "none" /\ call.out.tag = "Err") => (call.out.errors # <<>>)

\* an Err combined from three constructed values, one of them Ok
C15_Witness ==
    /\ Len(stack) >= 1
    /\ stack[Len(stack)].val.tag = "Err"
    /\ Len(stack[Len(stack)].leaves) = 3
    /\ \E i \in 1..3 : stack[Len(stack)].leaves[i].tag = "Ok"
    /\ IsCombineCall
    /\ call.out.errors # <<>>

----------------------------------------------------------------------------
(* Properties of the rendering closure, checked under Spec                 *)

\* what source i holds now: "absent", "ok" or "failed"
SourceState(i) ==
    IF sources[i].tag = "None" THEN "absent"
    ELSE IF sources[i].tag = "Some"
        THEN (IF sources[i].some.tag = "Ok" THEN "ok" ELSE "failed")
    ELSE IF sources[i].tag = "Ok" THEN "ok" ELSE "failed"

\* the Result source i holds, once it is not absent
SourceResult(i) ==
    IF sources[i].tag = "Some" THEN sources[i].some ELSE sources[i]

\* the errors of the failed sources among 1..n, in declaration order
RECURSIVE FailedErrors(_)
FailedErrors(n) ==
    IF n = 0 THEN <<>>
    ELSE IF SourceState(n) = "failed"
        THEN Append(FailedErrors(n - 1), SourceResult(n).error)
    ELSE FailedErrors(n - 1)

\* C8: whatever the order in which the sources resolved, a reconciliation
\* that returns Ok returns a bundle of arity N whose i-th element is the
\* value of the i-th declared source.
C8_BundleInDeclarationOrder ==
    (~pending /\ validate.tag = "Ok")
        => /\ Len(validate.hlist) = NumSources
           /\ view.either = "A"
           /\ DOMAIN view.params = 1..NumSources
           /\ \A i \in 1..NumSources :
                  /\ SourceState(i) = "ok"
                  /\ validate.hlist[i] = SourceResult(i).value
                  /\ view.params[i] = SourceResult(i).value

\* a later-declared resource resolved before an earlier one, to another value
C8_Witness ==
    /\ ~pending
    /\ validate.tag = "Ok"
    /\ view.either = "A"
    /\ Len(order) >= 2
    /\ order[1] > order[2]
    /\ view.params[order[1]] # view.params[order[2]]

\* C9: each evaluation of signal_result_view selects exactly one of the
\* branches success (A), error (B), loading (C), and which one depends on
\* the state of the combined SignalResult only.
C9_OneBranchByState ==
    (view # Unrendered)
        => /\ view.either \in {"A", "B", "C"}
           /\ (view.either = "A") <=> (validate.tag = "Ok")
           /\ (view.either = "B") <=> (validate.tag = "Err")
           /\ (view.either = "C") <=> (validate.tag = "Loading")

\* the error branch was selected for a combined Err
C9_Witness ==
    /\ ~pending
    /\ validate.tag = "Err"
    /\ view = [either |-> "B", errors |-> validate.errors]

\* C10: a reconciliation returns Err exactly when no source is absent and at
\* least one failed, and the error view then gets the error of every failed
\* source once, in declaration order, and nothing else.
C10_AllErrorsInOrder ==
    ~pending
        => /\ (view.either = "B")
                  <=> /\ \A i \in 1..NumSources : SourceState(i) # "absent"
                      /\ \E i \in 1..NumSources : SourceState(i) = "failed"
           /\ (view.either = "B") => (view.errors = FailedErrors(NumSources))

\* two sources failed with different errors while another succeeded
C10_Witness ==
    /\ ~pending
    /\ view.either = "B"
    /\ Len(view.errors) = 2
    /\ view.errors[1] # view.errors[2]
    /\ \E i \in 1..NumSources : SourceState(i) = "ok"

----------------------------------------------------------------------------
(* Properties of the typed routes, checked under SpecPath                  *)

\* path is one with_query_params wrapper around a derived route, and has
\* been rendered
OneWrapRendered ==
    /\ rendered # NotRendered
    /\ path.route = "WithQueryParams"
    /\ path.path.route # "WithQueryParams"
    /\ path.params.supported

\* the rendering of the wrapped route
BaseRendering == to_string(path.path).out

Count(c, s) == Cardinality({i \in 1..Len(s) : s[i] = c})

\* the form-urlencoded pair of field i
EncodedPair(fields, i) ==
    byte_serialize(FieldName(i)) \o <<"=">> \o byte_serialize(fields[i])

\* the pairs of fields 1..n joined by '&'
RECURSIVE JoinedPairs(_, _)
JoinedPairs(fields, n) ==
    IF n = 1 THEN EncodedPair(fields, 1)
    ELSE JoinedPairs(fields, n - 1) \o <<"&">> \o EncodedPair(fields, n)

C13_EmptyQueryTrailingMark ==
    (OneWrapRendered /\ path.params.fields = <<>> /\ ~contains(BaseRendering, "?"))
        => /\ ~rendered.panicked
           /\ rendered.out = Append(BaseRendering, "?")
           /\ Count("?", rendered.out) = 1
           /\ (path.path = Help)
                  => (rendered.out = <<"/", "h", "e", "l", "p", "?">>)

\* /help wrapped with the empty query object and rendered
C13_Witness ==
    /\ OneWrapRendered
    /\ path = WithQueryParams(Help, QueryStruct(<<>>))
    /\ rendered = Rendered(<<"/", "h", "e", "l", "p", "?">>)

\* the characters C14 lists: controls, space and " < > ` # ? { } / %
C14_MustEncode ==
    {"\t", "\n", " ", "\"", "<", ">", Backtick, "#", "?", "{", "}", "/", "%"}

\* the character with the given two hexadecimal digits
C14_Unhex(digits) == CHOOSE c \in C14_MustEncode : Hex(c) = digits

RECURSIVE C14_Decode(_)
C14_Decode(s) ==
    IF s = <<>> THEN <<>>
    ELSE IF Head(s) = "%"
        THEN <<C14_Unhex(<<s[2], s[3]>>)>> \o C14_Decode(SubSeq(s, 4, Len(s)))
    ELSE <<Head(s)>> \o C14_Decode(Tail(s))

\* C14: the route /some/:parameter renders as "/some/" followed by the value
\* with every control character, space and " < > ` # ? { } / % percent-
\* encoded: the rendering has the two '/' of the pattern and no raw '?' or
\* '#'; for the value "test" it is "/some/test".
C14_SegmentEncoded ==
    (path.route = "SomeParameterPath" /\ rendered # NotRendered)
        => LET v == path.parameter
               out == rendered.out
               tail == SubSeq(out, 7, Len(out))
               escaped == Cardinality({i \in 1..Len(v) : v[i] \in C14_MustEncode})
           IN /\ ~rendered.panicked
              /\ Len(out) >= 6
              /\ SubSeq(out, 1, 6) = <<"/", "s", "o", "m", "e", "/">>
              /\ \A i \in 1..Len(tail) : tail[i] \notin (C14_MustEncode \ {"%"})
              /\ Count("%", tail) = escaped
              /\ Len(tail) = Len(v) + 2 * escaped
              /\ C14_Decode(tail) = v
              /\ Count("/", out) = 2
              /\ Count("?", out) = 0
              /\ Count("#", out) = 0
              /\ (v = <<"t", "e", "s", "t">>)
                     => (out = <<"/", "s", "o", "m", "e", "/", "t", "e", "s", "t">>)

\* a value made of a '/' and a '?' has been rendered
C14_Witness ==
    /\ path = SomeParameterPath(<<"/", "?">>)
    /\ rendered = Rendered(<<"/", "s", "o", "m", "e", "/",
                             "%", "2", "F", "%", "3", "F">>)

====
